---- MODULE Spec2Model ----
(***************************************************************************)
(* Model of sleep-hrv-analyzer: the daytime HRV aggregation                *)
(* (data_processor.calculate_daytime_hrv_integral), the two source readers *)
(* (utils/file_parser.py, utils/date_utils.py) and the batch loop          *)
(* (data_processor.process_sleep_hrv_data).                                *)
(*                                                                         *)
(* Numbers.  HRV values are Python floats; the model keeps them as         *)
(* integers counted in thousandths (20.125 ms is 20125), so that a value   *)
(* with more than two decimals exists and rounding to two decimals is      *)
(* visible.  Hours are integers.  A dict is a sequence of [slot, value]    *)
(* records with distinct slots, in insertion order (the order Python       *)
(* iterates it in).                                                        *)
(*                                                                         *)
(* Three specifications:                                                   *)
(*   SpecCalc  one call of calculate_daytime_hrv_integral on arguments     *)
(*             drawn from bounded sets;                                    *)
(*   SpecParse one call of parse_hrv_file on an HRV file drawn from        *)
(*             bounded sets;                                               *)
(*   Spec      one run of process_sleep_hrv_data on a sleep file and an    *)
(*             HRV file drawn from bounded sets.                           *)
(***************************************************************************)
EXTENDS Integers, Sequences, FiniteSets, TLC

VARIABLES
    \* ---- one call of calculate_daytime_hrv_integral (SpecCalc) ----
    c_pc,                   \* "ready" before the call, "returned" after it
    hrv_arg,                \* argument hrv_data: dict slot -> value
    wakeup_arg,             \* argument wakeup_datetime
    next_arg,               \* argument next_bedtime_datetime
    daytime_data,           \* local daytime_data after the sort
    total_integral,         \* local total_integral, doubled (see Integral2)
    total_time,             \* local total_time
    ret,                    \* the value returned
    \* ---- one run of process_sleep_hrv_data (Spec) ----
    pc,                     \* "start", "sleep_loaded", "loop", "done", "raised"
                            \* (SpecParse: "parse_ready", "parsed", "parse_raised")
    sleep_file,             \* the AutoSleep CSV
    hrv_file,               \* the HRV file
    sleep_data,             \* DataFrame returned by read_autosleep_data
    hrv_data,               \* dict returned by parse_hrv_file
    result_df,              \* rows appended so far
    idx,                    \* loop index i (0-based) of the next record
    progress,               \* values handed to progress_callback, in order
    returned,               \* what the caller receives: None until it returns
    calls                   \* history: one record per call made by the loop

calc_vars == <<c_pc, hrv_arg, wakeup_arg, next_arg, daytime_data,
               total_integral, total_time, ret>>
batch_vars == <<pc, sleep_file, hrv_file, sleep_data, hrv_data, result_df,
                idx, progress, returned, calls>>
vars == <<calc_vars, batch_vars>>

\* ------------------------------------------------------------------------
\* Python / pandas values
\* ------------------------------------------------------------------------
\* Every Python object is a record, so that any two can be compared:
\*   None, pandas.NaT, a datetime [date, hour], a float result [value].
None == [none |-> TRUE]
NaT == [nat |-> TRUE]
Float(v) == [value |-> v]

\* datetime.hour as a number object: [nan |-> FALSE, v |-> hour]; every field
\* of NaT reads as float nan
NaN == [nan |-> TRUE]
Num(n) == [nan |-> FALSE, v |-> n]
HourOf(dt) == IF dt = NaT THEN NaN ELSE Num(dt.hour)

\* h < u and h >= u for an int h and a number object u: every comparison
\* with nan is False
Lt(h, u) == IF u.nan THEN FALSE ELSE h < u.v
Ge(h, u) == IF u.nan THEN FALSE ELSE h >= u.v

\* ------------------------------------------------------------------------
\* utils/date_utils.py
\* ------------------------------------------------------------------------
\* A time-slot label is [num, ampm]: num is the leading run of digits (-1
\* when the label does not start with a digit), ampm is what follows the
\* optional blanks: "AM", "PM" or "" (anything else).
RegexMatches(time_slot) == time_slot.num >= 0 /\ time_slot.ampm \in {"AM", "PM"}

convert_FailAsZero(time_slot) ==
    IF RegexMatches(time_slot)
    THEN IF time_slot.ampm = "PM" /\ time_slot.num # 12 THEN time_slot.num + 12
         ELSE IF time_slot.ampm = "AM" /\ time_slot.num = 12 THEN 0
         ELSE time_slot.num
    ELSE 0

convert_time_slot_to_hour(time_slot) ==
    IF RegexMatches(time_slot)
    THEN IF time_slot.ampm = "PM" /\ time_slot.num # 12 THEN time_slot.num + 12
         ELSE IF time_slot.ampm = "AM" /\ time_slot.num = 12 THEN 0
         ELSE time_slot.num
    ELSE -1

\* ------------------------------------------------------------------------
\* data_processor.calculate_daytime_hrv_integral
\* ------------------------------------------------------------------------
DefaultBedtimeHour == 23

\* lines 31-35: `if next_bedtime_datetime:` is true of every datetime and of
\* NaT (neither defines __bool__), false of None
next_bedtime_hour(next_bedtime_datetime) ==
    IF next_bedtime_datetime # None
    THEN HourOf(next_bedtime_datetime)
    ELSE Num(DefaultBedtimeHour)

InWindow_InclusiveUpper(hour, wakeup_hour, upper_hour) ==
    hour >= 0 /\ Ge(hour, wakeup_hour)
    /\ (Lt(hour, upper_hour) \/ upper_hour = Num(hour))

\* line 42
InWindow(hour, wakeup_hour, upper_hour) ==
    hour >= 0 /\ Ge(hour, wakeup_hour) /\ Lt(hour, upper_hour)

\* lines 38-43: the (hour, value) pairs appended, in dict order
RECURSIVE Select(_, _, _)
Select(hrv, wakeup_hour, upper_hour) ==
    IF hrv = <<>> THEN <<>>
    ELSE LET hour == convert_time_slot_to_hour(Head(hrv).slot)
             rest == Select(Tail(hrv), wakeup_hour, upper_hour)
         IN  IF InWindow(hour, wakeup_hour, upper_hour)
             THEN <<(<<hour, Head(hrv).value>>)>> \o rest
             ELSE rest

\* list.sort(key=hour) is stable: p goes after every element whose hour is
\* not larger
RECURSIVE InsertByHour(_, _)
InsertByHour(sorted, p) ==
    IF sorted = <<>> THEN <<p>>
    ELSE IF Head(sorted)[1] <= p[1]
         THEN <<Head(sorted)>> \o InsertByHour(Tail(sorted), p)
         ELSE <<p>> \o sorted

SortByHour_Unsorted(pairs) == pairs

\* line 46
RECURSIVE SortByHour(_)
SortByHour(pairs) ==
    IF pairs = <<>> THEN <<>>
    ELSE InsertByHour(SortByHour(SubSeq(pairs, 1, Len(pairs) - 1)),
                      pairs[Len(pairs)])

\* lines 58-73.  Integral2 is twice total_integral, so that
\* (start_value + end_value) / 2 stays an integer:
\* 2 * segment_integral = (start_value + end_value) * time_interval.
Segment2_Rectangle(start_value, end_value, time_interval) ==
    2 * start_value * time_interval

Segment2(start_value, end_value, time_interval) ==
    (start_value + end_value) * time_interval

RECURSIVE Integral2(_)
Integral2(dd) ==
    IF Len(dd) < 2 THEN 0
    ELSE LET time_interval == dd[2][1] - dd[1][1]
         IN  (IF time_interval <= 0 THEN 0
              ELSE Segment2(dd[1][2], dd[2][2], time_interval))
             + Integral2(Tail(dd))

RECURSIVE TotalTime(_)
TotalTime(dd) ==
    IF Len(dd) < 2 THEN 0
    ELSE LET time_interval == dd[2][1] - dd[1][1]
         IN  (IF time_interval <= 0 THEN 0 ELSE time_interval)
             + TotalTime(Tail(dd))

\* n / d (d > 0, n >= 0) to the nearest integer, ties to even.  Python's
\* round() rounds the double it is given correctly; a quotient that is a
\* decimal tie may sit on either side once stored in binary, so statements
\* about rounding below allow either neighbour at a tie.
RoundHalfEven(n, d) ==
    LET q == n \div d
        r == n % d
    IN  IF 2 * r < d THEN q
        ELSE IF 2 * r > d THEN q + 1
        ELSE IF q % 2 = 0 THEN q ELSE q + 1

\* line 77: round(total_integral / total_time, 2), in thousandths.
\* total_integral / total_time = integral2 / (2 * time) thousandths
\*                             = integral2 / (20 * time) hundredths.
Round2(integral2, time) == 10 * RoundHalfEven(integral2, 20 * time)

Single_Rounded(dd) == 10 * RoundHalfEven(dd[1][2], 10)

\* lines 50-51: the one selected value, as stored
Single(dd) == dd[1][2]

\* The locals and the return value of one call.  A local the call never
\* assigns reads <<>> (daytime_data) or 0 (the totals, their value at lines
\* 55-56).
Calc(hrv, wakeup_datetime, next_bedtime_datetime) ==
    IF hrv = <<>> \/ wakeup_datetime = None                    \* line 27
    THEN [daytime_data |-> <<>>, total_integral |-> 0,
          total_time |-> 0, ret |-> None]
    ELSE LET wakeup_hour == HourOf(wakeup_datetime)
             upper == next_bedtime_hour(next_bedtime_datetime)
             dd == SortByHour(Select(hrv, wakeup_hour, upper))
         IN  IF Len(dd) < 2                                    \* line 48
             THEN [daytime_data |-> dd, total_integral |-> 0,
                   total_time |-> 0,
                   ret |-> IF dd # <<>> THEN Float(Single(dd)) ELSE None]
             ELSE [daytime_data |-> dd,
                   total_integral |-> Integral2(dd),
                   total_time |-> TotalTime(dd),
                   ret |-> IF TotalTime(dd) > 0                \* line 76
                           THEN Float(Round2(Integral2(dd), TotalTime(dd)))
                           ELSE None]

calculate_daytime_hrv_integral(hrv, wakeup_datetime, next_bedtime_datetime) ==
    Calc(hrv, wakeup_datetime, next_bedtime_datetime).ret

\* ------------------------------------------------------------------------
\* SpecCalc: one call of calculate_daytime_hrv_integral
\* ------------------------------------------------------------------------
MaxReadings == 3            \* entries in the reading set of one call

\* The bucket labels a reading set draws from, in header (insertion) order.
\* "14 AM" reads as hour 14 like "2 PM"; "13 PM" reads as 25; "noon" does
\* not match.
CalcSlots ==
    << [num |-> 2, ampm |-> "PM"],  [num |-> 6, ampm |-> "AM"],
       [num |-> 9, ampm |-> "AM"],  [num |-> 12, ampm |-> "PM"],
       [num |-> 14, ampm |-> "AM"], [num |-> 11, ampm |-> "PM"],
       [num |-> -1, ampm |-> ""],   [num |-> 13, ampm |-> "PM"] >>

CalcValues == {20125, 30000, 35000, 40000}
CalcWakeHours == {6, 10, 23}
CalcNextHours == {6, 14, 22}

RECURSIVE BuildDict(_, _, _)
BuildDict(k, S, f) ==
    IF k > Len(CalcSlots) THEN <<>>
    ELSE (IF k \in S THEN <<[slot |-> CalcSlots[k], value |-> f[k]]>> ELSE <<>>)
         \o BuildDict(k + 1, S, f)

CalcDicts ==
    UNION { {BuildDict(1, S, f) : f \in [S -> CalcValues]} :
            S \in {T \in SUBSET (1..Len(CalcSlots)) : Cardinality(T) <= MaxReadings} }

CalcWakeups == {None} \cup {[date |-> 1, hour |-> h] : h \in CalcWakeHours}
CalcNexts == {None, NaT} \cup {[date |-> 1, hour |-> h] : h \in CalcNextHours}

BatchIdle ==
    /\ pc = "idle"
    /\ sleep_file = None /\ hrv_file = None
    /\ sleep_data = <<>> /\ hrv_data = <<>>
    /\ result_df = <<>> /\ idx = 0 /\ progress = <<>>
    /\ returned = None /\ calls = <<>>

CalcIdle ==
    /\ c_pc = "idle"
    /\ hrv_arg = <<>> /\ wakeup_arg = None /\ next_arg = None
    /\ daytime_data = <<>> /\ total_integral = 0 /\ total_time = 0
    /\ ret = None

InitCalc ==
    /\ c_pc = "ready"
    /\ hrv_arg \in CalcDicts
    /\ wakeup_arg \in CalcWakeups
    /\ next_arg \in CalcNexts
    /\ daytime_data = <<>> /\ total_integral = 0 /\ total_time = 0
    /\ ret = None
    /\ BatchIdle

Call ==
    /\ c_pc = "ready"
    /\ LET out == Calc(hrv_arg, wakeup_arg, next_arg)
       IN  /\ daytime_data' = out.daytime_data
           /\ total_integral' = out.total_integral
           /\ total_time' = out.total_time
           /\ ret' = out.ret
    /\ c_pc' = "returned"
    /\ UNCHANGED <<hrv_arg, wakeup_arg, next_arg>>
    /\ UNCHANGED batch_vars

NextCalc == Call

SpecCalc == InitCalc /\ [][NextCalc]_vars

\* ------------------------------------------------------------------------
\* utils/date_utils.py: datetime strings
\* ------------------------------------------------------------------------
\* A timestamp cell of the sleep CSV is a string.  One that has the shape
\* "Y-M-D <ampm>H:M:S" is [date, ampm, h12], ampm being "gozen" (the AM
\* marker) or "gogo" (the PM marker); any other string is BadCell.
BadCell == [date |-> 0, ampm |-> "", h12 |-> 0]

\* lines 27-54: a string the pattern does not match falls through to
\* `return None`; datetime() raises ValueError for an hour above 23, which
\* the except clause turns into None
parse_japanese_datetime(datetime_str) ==
    IF datetime_str.ampm \notin {"gozen", "gogo"} THEN None
    ELSE LET hour == IF datetime_str.ampm = "gogo" /\ datetime_str.h12 # 12
                     THEN datetime_str.h12 + 12
                     ELSE IF datetime_str.ampm = "gozen" /\ datetime_str.h12 = 12
                          THEN 0
                          ELSE datetime_str.h12
         IN  IF hour > 23 THEN None
             ELSE [date |-> datetime_str.date, hour |-> hour]

\* lines 66-69: the part after the first blank, or the string itself when
\* it has no blank (BadCell)
format_time_part(datetime_str) ==
    IF datetime_str.ampm \in {"gozen", "gogo"}
    THEN [ampm |-> datetime_str.ampm, h12 |-> datetime_str.h12]
    ELSE datetime_str

\* A date string "YYYY/MM/DD" is [ymd |-> d]; "" is EmptyStr.
DateStr(d) == [ymd |-> d]
EmptyStr == [empty |-> TRUE]

\* lines 82-84, for None and for a datetime (NaT is handled by the caller:
\* NaT.strftime raises ValueError)
get_date_string(dt) == IF dt = None THEN EmptyStr ELSE DateStr(dt.date)

\* ------------------------------------------------------------------------
\* utils/file_parser.py
\* ------------------------------------------------------------------------
Raised(what) == [raised |-> TRUE, error |-> what]
Returned(v) == [raised |-> FALSE, value |-> v]

\* Series.apply(parse_japanese_datetime) builds the new column from the
\* values returned.  pandas infers the dtype of that column: when at least
\* one value is a datetime the column becomes datetime64[ns] and every None
\* in it is stored as NaT; when every value is None it stays an object
\* column of None.
InferDatetimeColumn(col) ==
    IF \E k \in 1..Len(col) : col[k] # None
    THEN [k \in 1..Len(col) |-> IF col[k] = None THEN NaT ELSE col[k]]
    ELSE col

\* lines 42-47
required_columns_present(file) == file.has_bedtime /\ file.has_wakeup

\* lines 41-62.  The sleep CSV is [has_bedtime, has_wakeup, rows], rows a
\* sequence of [Bedtime, Wakeup] cells.  The Date column applies
\* get_date_string to Wakeup_dt: on a NaT it reaches NaT.strftime, which
\* raises ValueError out of read_autosleep_data.
read_autosleep_data(file) ==
    IF ~required_columns_present(file) THEN Raised("ValueError")
    ELSE LET n == Len(file.rows)
             bed == InferDatetimeColumn(
                        [k \in 1..n |-> parse_japanese_datetime(file.rows[k].Bedtime)])
             wake == InferDatetimeColumn(
                        [k \in 1..n |-> parse_japanese_datetime(file.rows[k].Wakeup)])
         IN  IF \E k \in 1..n : wake[k] = NaT THEN Raised("ValueError")
             ELSE Returned([k \in 1..n |->
                      [Bedtime |-> file.rows[k].Bedtime,
                       Wakeup |-> file.rows[k].Wakeup,
                       Bedtime_dt |-> bed[k],
                       Wakeup_dt |-> wake[k],
                       Date |-> get_date_string(wake[k])]])

\* dict[key] = value: a key already present keeps its position
RECURSIVE DictSet(_, _, _)
DictSet(d, slot, value) ==
    IF d = <<>> THEN <<[slot |-> slot, value |-> value]>>
    ELSE IF Head(d).slot = slot
         THEN <<[slot |-> slot, value |-> value]>> \o Tail(d)
         ELSE <<Head(d)>> \o DictSet(Tail(d), slot, value)

\* dict.get(key, default)
RECURSIVE DictGet(_, _, _)
DictGet(d, slot, default) ==
    IF d = <<>> THEN default
    ELSE IF Head(d).slot = slot THEN Head(d).value
         ELSE DictGet(Tail(d), slot, default)

\* A value cell of the HRV file (quotes stripped) is one of
\*   [kind |-> "blank"]                    nothing but blanks
\*   [kind |-> "num", v |-> n]             a bare number
\*   [kind |-> "range", a |-> n, b |-> m]  "n - m"
\*   [kind |-> "bad"]                      other text without " - "
\*   [kind |-> "badrange"]                 text with " - " whose parts are
\*                                         not two numbers
\* lines 103-117: the value stored for the cell, <<v>>, or <<>> when the
\* cell stores nothing.  (a + b) / 2 is taken on even a + b.
ParseCell_NoRange(cell) ==
    IF cell.kind = "num" THEN <<cell.v>> ELSE <<>>

ParseCell_BadAsZero(cell) ==
    IF cell.kind = "range" THEN <<(cell.a + cell.b) \div 2>>
    ELSE IF cell.kind = "num" THEN <<cell.v>>
    ELSE <<0>>

ParseCell(cell) ==
    IF cell.kind = "range" THEN <<(cell.a + cell.b) \div 2>>
    ELSE IF cell.kind = "num" THEN <<cell.v>>
    ELSE <<>>

\* lines 98-117: the dict of one data line, cells j..Len(cells)
RECURSIVE ParseCells(_, _, _, _)
ParseCells(time_slots, cells, j, date_hrv) ==
    IF j > Len(cells) THEN date_hrv
    ELSE IF j <= Len(time_slots) /\ cells[j].kind # "blank"
              /\ ParseCell(cells[j]) # <<>>
         THEN ParseCells(time_slots, cells, j + 1,
                         DictSet(date_hrv, time_slots[j], ParseCell(cells[j])[1]))
         ELSE ParseCells(time_slots, cells, j + 1, date_hrv)

\* lines 89-119: data lines i..Len(lines); a blank line is skipped, a date
\* seen again replaces its dict
RECURSIVE ParseLines(_, _, _, _)
ParseLines(time_slots, lines, i, data) ==
    IF i > Len(lines) THEN data
    ELSE IF lines[i].kind = "blank"
         THEN ParseLines(time_slots, lines, i + 1, data)
         ELSE ParseLines(time_slots, lines, i + 1,
                         DictSet(data, lines[i].date,
                                 ParseCells(time_slots, lines[i].cells, 1, <<>>)))

MinHrvLines == 2

\* line 81
too_short(lines) == Len(lines) < MinHrvLines

\* lines 74-125.  The HRV file is its sequence of lines: line 1 is not
\* read, line 2 is the header [kind |-> "header", slots |-> labels], the
\* others are [kind |-> "data", date, cells] or [kind |-> "blank"].
\* Every exception is logged and raised again (lines 121-123); lines[1] at
\* line 85 raises IndexError on a list without a second element.
parse_hrv_file(lines) ==
    IF too_short(lines) THEN Raised("ValueError")
    ELSE IF Len(lines) < 2 THEN Raised("IndexError")
    ELSE Returned(ParseLines(lines[2].slots, lines, 3, <<>>))

\* ------------------------------------------------------------------------
\* data_processor.process_sleep_hrv_data
\* ------------------------------------------------------------------------
NA == [na |-> TRUE]                     \* the string 'N/A'
Str(avg) == [repr |-> avg.value]        \* str(avg): the decimal text of avg

hrv_column_Blank(avg_daytime_hrv) ==
    IF avg_daytime_hrv # None THEN Str(avg_daytime_hrv) ELSE EmptyStr

\* line 154
hrv_column(avg_daytime_hrv) ==
    IF avg_daytime_hrv # None THEN Str(avg_daytime_hrv) ELSE NA

\* line 131
skip_record(bedtime_dt, wakeup_dt) == bedtime_dt = None \/ wakeup_dt = None

lookup_dt_Bedtime(sleep_record) ==
    IF sleep_record.Bedtime_dt \in {None, NaT}
    THEN sleep_record.Wakeup_dt
    ELSE sleep_record.Bedtime_dt

\* lines 129, 136: the datetime whose date keys the HRV lookup
lookup_dt(sleep_record) == sleep_record.Wakeup_dt

next_bedtime_NextParsed(data, i) ==
    IF \E k \in (i + 2)..Len(data) : data[k].Bedtime_dt \notin {None, NaT}
    THEN data[CHOOSE k \in (i + 2)..Len(data) :
                 /\ data[k].Bedtime_dt \notin {None, NaT}
                 /\ \A m \in (i + 2)..(k - 1) : data[m].Bedtime_dt \in {None, NaT}
             ].Bedtime_dt
    ELSE None

dict_after_get_Pop(d, key) ==
    SelectSeq(d, LAMBDA e : e.slot # key)

\* line 137: dict.get(key, default) reads the dict and leaves it as it was
dict_after_get(d, key) == d

\* lines 140-143, i counted from 0 as in the code: sleep_data.iloc[i + 1]
\* is data[i + 2] here
next_bedtime(data, i) ==
    IF i + 1 < Len(data) THEN data[i + 2].Bedtime_dt ELSE None

\* lines 124-125
progress_value(i, n) ==
    LET v == 50 + ((i * 40) \div n) IN IF v < 90 THEN v ELSE 90

except_Swallow(error) == [pc |-> "done", returned |-> [rows |-> <<>>]]

\* lines 165-167: log and raise again; the caller receives the exception,
\* never the rows built so far
except_clause(error) == [pc |-> "raised", returned |-> [exception |-> error]]

SleepRows == 3              \* rows of the sleep CSV
Dates == {1, 2}

BedCells ==
    {BadCell, [date |-> 1, ampm |-> "gogo", h12 |-> 10],
              [date |-> 2, ampm |-> "gozen", h12 |-> 12]}
WakeCells ==
    {BadCell, [date |-> 1, ampm |-> "gozen", h12 |-> 6],
              [date |-> 2, ampm |-> "gozen", h12 |-> 6],
              [date |-> 2, ampm |-> "gozen", h12 |-> 10]}

SeqsUpTo(S, n) == UNION {[1..m -> S] : m \in 0..n}

SleepFiles ==
    {[has_bedtime |-> TRUE, has_wakeup |-> TRUE, rows |-> r] :
        r \in SeqsUpTo([Bedtime : BedCells, Wakeup : WakeCells], SleepRows)}
    \cup
    {[has_bedtime |-> b, has_wakeup |-> w,
      rows |-> <<[Bedtime |-> [date |-> 1, ampm |-> "gogo", h12 |-> 10],
                  Wakeup |-> [date |-> 2, ampm |-> "gozen", h12 |-> 6]]>>] :
        b \in BOOLEAN, w \in BOOLEAN}

\* The header of the HRV files: hours 6, 9, 12, 23 and a label that does not
\* parse.
BatchSlots ==
    << [num |-> 6, ampm |-> "AM"],  [num |-> 9, ampm |-> "AM"],
       [num |-> 12, ampm |-> "PM"], [num |-> 11, ampm |-> "PM"],
       [num |-> -1, ampm |-> ""] >>

Blank == [kind |-> "blank"]
NumCell(n) == [kind |-> "num", v |-> n]

\* the cells of a data line: three readings; a reading at hour 23 and one
\* under the bad label; one reading given as a range, beside a bad cell
CellRows ==
    { <<NumCell(30000), NumCell(35000), NumCell(40000), Blank, Blank>>,
      <<Blank, Blank, Blank, NumCell(50000), NumCell(7000)>>,
      <<[kind |-> "range", a |-> 20000, b |-> 20250], [kind |-> "bad"],
        Blank, Blank, Blank>> }

\* a metadata line, the header, and at most one data line per date
HrvFiles ==
    { <<>>, <<[kind |-> "meta"]>> }
    \cup
    { <<[kind |-> "meta"], [kind |-> "header", slots |-> BatchSlots]>> }
    \cup
    { <<[kind |-> "meta"], [kind |-> "header", slots |-> BatchSlots],
        [kind |-> "data", date |-> DateStr(d), cells |-> c]>> :
        d \in Dates, c \in CellRows }
    \cup
    { <<[kind |-> "meta"], [kind |-> "header", slots |-> BatchSlots],
        [kind |-> "data", date |-> DateStr(1), cells |-> c1],
        [kind |-> "blank"],
        [kind |-> "data", date |-> DateStr(2), cells |-> c2]>> :
        c1 \in CellRows, c2 \in CellRows }

Init ==
    /\ pc = "start"
    /\ sleep_file \in SleepFiles
    /\ hrv_file \in HrvFiles
    /\ sleep_data = <<>> /\ hrv_data = <<>>
    /\ result_df = <<>> /\ idx = 0 /\ progress = <<>>
    /\ returned = None /\ calls = <<>>
    /\ CalcIdle

\* lines 93-103
LoadSleep ==
    /\ pc = "start"
    /\ LET r == read_autosleep_data(sleep_file)
       IN  IF r.raised
           THEN /\ pc' = except_clause(r.error).pc
                /\ returned' = except_clause(r.error).returned
                /\ progress' = <<10>>
                /\ UNCHANGED sleep_data
           ELSE /\ pc' = "sleep_loaded"
                /\ sleep_data' = r.value
                /\ progress' = <<10, 30>>
                /\ UNCHANGED returned
    /\ UNCHANGED <<sleep_file, hrv_file, hrv_data, result_df, idx, calls>>
    /\ UNCHANGED calc_vars

\* lines 105-118
LoadHrv ==
    /\ pc = "sleep_loaded"
    /\ LET r == parse_hrv_file(hrv_file)
       IN  IF r.raised
           THEN /\ pc' = except_clause(r.error).pc
                /\ returned' = except_clause(r.error).returned
                /\ UNCHANGED <<hrv_data, progress>>
           ELSE /\ pc' = "loop"
                /\ hrv_data' = r.value
                /\ progress' = Append(progress, 50)
                /\ UNCHANGED returned
    /\ UNCHANGED <<sleep_file, hrv_file, sleep_data, result_df, idx, calls>>
    /\ UNCHANGED calc_vars

\* lines 121-158: one iteration of the loop, for record idx
ProcessRecord ==
    /\ pc = "loop"
    /\ idx < Len(sleep_data)
    /\ LET sleep_record == sleep_data[idx + 1]
           bedtime_dt == sleep_record.Bedtime_dt
           wakeup_dt == sleep_record.Wakeup_dt
           wakeup_date == DateStr(lookup_dt(sleep_record).date)
           wakeup_hrv == DictGet(hrv_data, wakeup_date, <<>>)
           next_bedtime_dt == next_bedtime(sleep_data, idx)
           avg_daytime_hrv ==
               calculate_daytime_hrv_integral(wakeup_hrv, wakeup_dt, next_bedtime_dt)
       IN  /\ progress' = Append(progress, progress_value(idx, Len(sleep_data)))
           /\ IF skip_record(bedtime_dt, wakeup_dt)
              THEN /\ idx' = idx + 1
                   /\ UNCHANGED <<pc, result_df, calls, returned>>
              ELSE IF wakeup_dt \in {None, NaT}
              THEN \* None.strftime: AttributeError; NaT.strftime: ValueError
                   /\ pc' = except_clause("strftime").pc
                   /\ returned' = except_clause("strftime").returned
                   /\ UNCHANGED <<idx, result_df, calls>>
              ELSE /\ result_df' = Append(result_df,
                        [Date |-> sleep_record.Date,
                         Bedtime |-> format_time_part(sleep_record.Bedtime),
                         Wakeup |-> format_time_part(sleep_record.Wakeup),
                         HRV |-> hrv_column(avg_daytime_hrv)])
                   /\ calls' = Append(calls,
                        [row |-> idx, hrv |-> wakeup_hrv, wake |-> wakeup_dt,
                         next |-> next_bedtime_dt,
                         daytime |-> Calc(wakeup_hrv, wakeup_dt,
                                          next_bedtime_dt).daytime_data,
                         ret |-> avg_daytime_hrv])
                   /\ idx' = idx + 1
                   /\ UNCHANGED <<pc, returned>>
    /\ hrv_data' = IF skip_record(sleep_data[idx + 1].Bedtime_dt,
                                  sleep_data[idx + 1].Wakeup_dt)
                   THEN hrv_data
                   ELSE dict_after_get(hrv_data,
                            DateStr(lookup_dt(sleep_data[idx + 1]).date))
    /\ UNCHANGED <<sleep_file, hrv_file, sleep_data>>
    /\ UNCHANGED calc_vars

\* lines 160-163
Finish ==
    /\ pc = "loop"
    /\ idx = Len(sleep_data)
    /\ progress' = Append(progress, 95)
    /\ returned' = [rows |-> result_df]
    /\ pc' = "done"
    /\ UNCHANGED <<sleep_file, hrv_file, sleep_data, hrv_data, result_df, idx, calls>>
    /\ UNCHANGED calc_vars

Next == LoadSleep \/ LoadHrv \/ ProcessRecord \/ Finish

Spec == Init /\ [][Next]_vars

\* ------------------------------------------------------------------------
\* SpecParse: one call of parse_hrv_file
\* ------------------------------------------------------------------------
MaxCells == 2               \* value cells of one data line

\* the value cells a data line draws from: blank, "30.0", "20.0 - 20.25",
\* text that is no number, text with " - " that is no range of two numbers
ParseCellSet ==
    { Blank, NumCell(30000), [kind |-> "range", a |-> 20000, b |-> 20250],
      [kind |-> "bad"], [kind |-> "badrange"] }

\* a header with more labels than a line has cells, and one with fewer
ParseHeaders ==
    { << [num |-> 6, ampm |-> "AM"], [num |-> 9, ampm |-> "AM"],
         [num |-> 12, ampm |-> "PM"] >>,
      << [num |-> 6, ampm |-> "AM"] >> }

ParseDataLines ==
    { [kind |-> "blank"] }
    \cup
    { [kind |-> "data", date |-> DateStr(d), cells |-> c] :
        d \in Dates, c \in SeqsUpTo(ParseCellSet, MaxCells) }

\* no line, the metadata line alone, or metadata, header and 0..2 further
\* lines
ParseFiles ==
    { <<>>, <<[kind |-> "meta"]>> }
    \cup
    { <<[kind |-> "meta"], [kind |-> "header", slots |-> h]>> \o body :
        h \in ParseHeaders, body \in SeqsUpTo(ParseDataLines, 2) }

InitParse ==
    /\ pc = "parse_ready"
    /\ hrv_file \in ParseFiles
    /\ sleep_file = None
    /\ sleep_data = <<>> /\ hrv_data = <<>>
    /\ result_df = <<>> /\ idx = 0 /\ progress = <<>>
    /\ returned = None /\ calls = <<>>
    /\ CalcIdle

ParseCall ==
    /\ pc = "parse_ready"
    /\ LET r == parse_hrv_file(hrv_file)
       IN  IF r.raised
           THEN /\ pc' = "parse_raised"
                /\ returned' = [exception |-> r.error]
                /\ UNCHANGED hrv_data
           ELSE /\ pc' = "parsed"
                /\ hrv_data' = r.value
                /\ returned' = [data |-> r.value]
    /\ UNCHANGED <<sleep_file, hrv_file, sleep_data, result_df, idx, progress, calls>>
    /\ UNCHANGED calc_vars

NextParse == ParseCall

SpecParse == InitParse /\ [][NextParse]_vars

\* ========================================================================
\* Claims
\* ========================================================================
\* The window as the specification states it, computed from the arguments
\* alone: the positions k of the reading set whose bucket hour h satisfies
\* h >= 0, h >= wakeHour and h < upperHour, upperHour being the hour of the
\* next bedtime, or the default when there is none.  No position qualifies
\* when the next bedtime is NaT (its hour is nan).
SlotHour(hrv, k) == convert_time_slot_to_hour(hrv[k].slot)

WindowIdx(hrv, wake, next) ==
    IF wake = None \/ next = NaT THEN {}
    ELSE LET u == IF next = None THEN DefaultBedtimeHour ELSE next.hour
         IN  {k \in 1..Len(hrv) :
                 /\ SlotHour(hrv, k) >= 0
                 /\ SlotHour(hrv, k) >= wake.hour
                 /\ SlotHour(hrv, k) < u}

WindowPairs(hrv, wake, next) ==
    {<<SlotHour(hrv, k), hrv[k].value>> : k \in WindowIdx(hrv, wake, next)}

Occurs(pair, seq) == \E j \in 1..Len(seq) : seq[j] = pair

\* C1 (as claimed): with no next bedtime, a reading in bucket hour 23 at or
\* after the wake hour is among the readings aggregated, and no reading of
\* an hour beyond 23 is.
C1_Hour23Included ==
    (c_pc = "returned" /\ wakeup_arg # None /\ next_arg = None)
    => /\ \A k \in 1..Len(hrv_arg) :
            (SlotHour(hrv_arg, k) = 23 /\ wakeup_arg.hour <= 23)
            => Occurs(<<23, hrv_arg[k].value>>, daytime_data)
       /\ \A j \in 1..Len(daytime_data) : daytime_data[j][1] <= 23

\* C2: the readings selected are exactly those whose bucket hour h satisfies
\* h >= 0, h >= wakeHour and h < upperHour (lower bound inclusive, upper
\* bound exclusive), upperHour being the hour of the next bedtime when one
\* is given.
C2_SelectionIsWindow ==
    (c_pc = "returned" /\ wakeup_arg # None /\ next_arg # NaT)
    => LET W == WindowIdx(hrv_arg, wakeup_arg, next_arg)
       IN  /\ Len(daytime_data) = Cardinality(W)
           /\ \A k \in 1..Len(hrv_arg) :
                k \in W <=> Occurs(<<SlotHour(hrv_arg, k), hrv_arg[k].value>>,
                                   daytime_data)

\* C2 witness: wake hour 6, next bedtime hour 14, readings at hours 6 and 14:
\* the one at 6 is selected, the one at 14 is not.
C2_Witness ==
    /\ c_pc = "returned"
    /\ wakeup_arg = [date |-> 1, hour |-> 6]
    /\ next_arg = [date |-> 1, hour |-> 14]
    /\ \E k \in 1..Len(hrv_arg) : SlotHour(hrv_arg, k) = 6
    /\ \E k \in 1..Len(hrv_arg) : SlotHour(hrv_arg, k) = 14
    /\ Len(daytime_data) = 1 /\ daytime_data[1][1] = 6

\* The trapezoidal mean worked out by hand from a set P of (hour, value)
\* pairs with distinct hours: twice the integral, and the total width.
MinOf(S) == CHOOSE x \in S : \A y \in S : x <= y
ValueAt(P, h) == (CHOOSE p \in P : p[1] = h)[2]

RECURSIVE ManualIntegral2(_, _)
ManualIntegral2(P, Hs) ==
    IF Cardinality(Hs) < 2 THEN 0
    ELSE LET a == MinOf(Hs)
             b == MinOf(Hs \ {a})
         IN  (ValueAt(P, a) + ValueAt(P, b)) * (b - a)
             + ManualIntegral2(P, Hs \ {a})

RECURSIVE ManualWidth(_)
ManualWidth(Hs) ==
    IF Cardinality(Hs) < 2 THEN 0
    ELSE LET a == MinOf(Hs)
             b == MinOf(Hs \ {a})
         IN  (b - a) + ManualWidth(Hs \ {a})

DistinctHours(hrv, W) ==
    \A k \in W : \A m \in W : k # m => SlotHour(hrv, k) # SlotHour(hrv, m)

\* C3: for two or more selected readings at distinct hours the result is the
\* trapezoidal time-weighted mean, rounded to 2 decimal places: a whole
\* number of hundredths q with |q - integral/width| <= 1/2, that is
\* |20*width*q - 2*integral| <= 10*width with the integral in thousandths.
C3_TrapezoidalMean ==
    LET W == WindowIdx(hrv_arg, wakeup_arg, next_arg)
        P == WindowPairs(hrv_arg, wakeup_arg, next_arg)
        Hs == {p[1] : p \in P}
        I2 == ManualIntegral2(P, Hs)
        Wd == ManualWidth(Hs)
    IN  (c_pc = "returned" /\ Cardinality(W) >= 2 /\ DistinctHours(hrv_arg, W))
        => /\ ret # None
           /\ ret.value % 10 = 0
           /\ 20 * Wd * (ret.value \div 10) - I2 <= 10 * Wd
           /\ I2 - 20 * Wd * (ret.value \div 10) <= 10 * Wd

\* C3 witness: readings {6: 30.0, 9: 35.0, 12: 40.0}, wake hour 6, no next
\* bedtime, result 35.00.
C3_Witness ==
    /\ c_pc = "returned"
    /\ hrv_arg = << [slot |-> [num |-> 6, ampm |-> "AM"], value |-> 30000],
                    [slot |-> [num |-> 9, ampm |-> "AM"], value |-> 35000],
                    [slot |-> [num |-> 12, ampm |-> "PM"], value |-> 40000] >>
    /\ wakeup_arg = [date |-> 1, hour |-> 6]
    /\ next_arg = None
    /\ ret = Float(35000)

\* C8: when exactly one reading falls inside the window, the result is that
\* reading's value exactly as stored (no rounding, no division).
C8_SingleReadingExact ==
    LET W == WindowIdx(hrv_arg, wakeup_arg, next_arg)
    IN  (c_pc = "returned" /\ Cardinality(W) = 1)
        => \A k \in W : ret = Float(hrv_arg[k].value)

\* C8 witness: readings {14: 20.125}, wake hour 10, next bedtime hour 22:
\* the result is 20.125, not 20.12 or 20.13.
C8_Witness ==
    /\ c_pc = "returned"
    /\ hrv_arg = << [slot |-> [num |-> 2, ampm |-> "PM"], value |-> 20125] >>
    /\ wakeup_arg = [date |-> 1, hour |-> 10]
    /\ next_arg = [date |-> 1, hour |-> 22]
    /\ ret = Float(20125)

\* ------------------------------------------------------------------------
\* Claims about the batch (Spec)
\* ------------------------------------------------------------------------
Loaded == pc \in {"loop", "done"}
Terminal == pc \in {"done", "raised"}

GoodRows(file) ==
    {k \in 1..Len(file.rows) :
        /\ parse_japanese_datetime(file.rows[k].Bedtime) # None
        /\ parse_japanese_datetime(file.rows[k].Wakeup) # None}

CountBelow(S, k) == Cardinality({m \in S : m <= k})

\* C5 (as claimed): with both files well-formed the batch does not raise,
\* and the rows produced are exactly one per session whose bedtime and
\* wakeup both parsed, in input row order: a session with an unparsable
\* timestamp is skipped and the later sessions still produce their rows.
C5_OneRowPerParsedSession ==
    (sleep_file.has_bedtime /\ sleep_file.has_wakeup /\ Len(hrv_file) >= 2)
    => /\ pc # "raised"
       /\ pc = "done" =>
            /\ Len(result_df) = Cardinality(GoodRows(sleep_file))
            /\ \A k \in GoodRows(sleep_file) :
                  LET row == result_df[CountBelow(GoodRows(sleep_file), k)]
                  IN  /\ row.Bedtime = format_time_part(sleep_file.rows[k].Bedtime)
                      /\ row.Wakeup = format_time_part(sleep_file.rows[k].Wakeup)

\* C6: the next bedtime passed for the session at position i is the bedtime
\* of row i+1 of the session sequence when that row exists and absent
\* otherwise, so only the last session is aggregated with an absent next
\* bedtime (the default upper bound).
C6_NextBedtimeIsNextRow ==
    \A j \in 1..Len(calls) :
        LET i == calls[j].row
        IN  /\ i + 1 < Len(sleep_data)
                => calls[j].next = sleep_data[i + 2].Bedtime_dt
            /\ i + 1 >= Len(sleep_data) => calls[j].next = None
            /\ calls[j].next = None <=> i = Len(sleep_data) - 1

\* C6 witness: a finished batch in which the first session was aggregated
\* with the bedtime of the second row and the last one with none.
C6_Witness ==
    /\ pc = "done"
    /\ Len(calls) >= 2
    /\ calls[1].row = 0
    /\ calls[1].next = [date |-> 1, hour |-> 22]
    /\ calls[1].next = parse_japanese_datetime(sleep_file.rows[2].Bedtime)
    /\ calls[Len(calls)].next = None

ReadingsFor(date) ==
    IF \E d \in 1..Len(hrv_data) : hrv_data[d].slot = date
    THEN (CHOOSE e \in {hrv_data[d] : d \in 1..Len(hrv_data)} : e.slot = date).value
    ELSE <<>>

\* C7: the reading set aggregated for a session is the one keyed by the
\* calendar date of its wakeup timestamp, or the empty set when the HRV map
\* has no such date, and the row's Date field is that same date.
C7_ReadingsOfWakeDate ==
    \A j \in 1..Len(calls) :
        LET rec == sleep_data[calls[j].row + 1]
        IN  /\ calls[j].wake = rec.Wakeup_dt
            /\ calls[j].hrv = ReadingsFor(DateStr(rec.Wakeup_dt.date))
            /\ result_df[j].Date = DateStr(rec.Wakeup_dt.date)

\* C7 witness: a session that went to bed on date 1 and woke on date 2, the
\* HRV map holding different readings for the two dates: the readings of
\* date 2 were aggregated.
C7_Witness ==
    \E j \in 1..Len(calls) :
        LET rec == sleep_data[calls[j].row + 1]
        IN  /\ rec.Bedtime_dt = [date |-> 1, hour |-> 22]
            /\ rec.Wakeup_dt.date = 2
            /\ ReadingsFor(DateStr(1)) # <<>>
            /\ ReadingsFor(DateStr(2)) # <<>>
            /\ ReadingsFor(DateStr(1)) # ReadingsFor(DateStr(2))
            /\ calls[j].hrv = ReadingsFor(DateStr(2))
            /\ result_df[j].Date = DateStr(2)

\* C9: when no reading falls inside the window the aggregate is absent, and
\* the session still gets its row, with 'N/A' in the HRV column: the loop
\* neither skips the session nor raises.
C9_NoReadingGivesNA ==
    /\ Len(result_df) = Len(calls)
    /\ \A j \in 1..Len(calls) :
          WindowIdx(calls[j].hrv, calls[j].wake, calls[j].next) = {}
          => /\ calls[j].ret = None
             /\ result_df[j].HRV = NA
    /\ Loaded =>
          \A i \in 0..(idx - 1) :
              (sleep_data[i + 1].Bedtime_dt # None /\ sleep_data[i + 1].Wakeup_dt # None)
              => \E j \in 1..Len(calls) : calls[j].row = i

\* C9 witness: a finished batch holding a session whose reading set is not
\* empty but has no reading at or after the wake hour, one whose wake date
\* has no readings at all, and one whose next bedtime hour is not after
\* its wake hour; each has its row, with 'N/A'.
C9_Witness ==
    /\ pc = "done"
    /\ \E j \in 1..Len(calls) :
          /\ calls[j].hrv # <<>>
          /\ calls[j].next = None
          /\ \A k \in 1..Len(calls[j].hrv) :
                RegexMatches(calls[j].hrv[k].slot)
                => SlotHour(calls[j].hrv, k) < calls[j].wake.hour
          /\ result_df[j].HRV = NA
    /\ \E j \in 1..Len(calls) : calls[j].hrv = <<>> /\ result_df[j].HRV = NA
    /\ \E j \in 1..Len(calls) :
          /\ calls[j].hrv # <<>>
          /\ calls[j].next = [date |-> 2, hour |-> 0]
          /\ result_df[j].HRV = NA

FatalInput ==
    \/ ~sleep_file.has_bedtime
    \/ ~sleep_file.has_wakeup
    \/ Len(hrv_file) < 2

\* C10: when the sleep file lacks the bedtime or the wake-time column, or
\* the HRV file has fewer than 2 lines, the run ends by raising to its
\* caller: it never enters the loop, never returns rows, never reports 95.
C10_FatalInputRaises ==
    FatalInput
    => /\ pc \in {"start", "sleep_loaded", "raised"}
       /\ pc = "sleep_loaded" => (sleep_file.has_bedtime /\ sleep_file.has_wakeup)
       /\ result_df = <<>>
       /\ \A k \in 1..Len(progress) : progress[k] # 95
       /\ returned \in {None, [exception |-> "ValueError"]}
       /\ pc = "raised" <=> returned # None

\* C10 witness: both columns present, a one-line HRV file: the run raised
\* after reporting 10 and 30.
C10_Witness ==
    /\ pc = "raised"
    /\ sleep_file.has_bedtime /\ sleep_file.has_wakeup
    /\ Len(hrv_file) = 1
    /\ Len(sleep_file.rows) = 1
    /\ progress = <<10, 30>>
    /\ returned = [exception |-> "ValueError"]

\* ------------------------------------------------------------------------
\* Claims about parse_hrv_file (SpecParse)
\* ------------------------------------------------------------------------
DataLines(file) == {i \in 3..Len(file) : file[i].kind = "data"}

\* line i is the last data line of its date: its dict is the one kept
LastOfDate(file, i) ==
    \A m \in DataLines(file) : m > i => file[m].date # file[i].date

\* the cells of line i that sit under a header label
CellsUnderHeader(file, i) ==
    {j \in 1..Len(file[i].cells) : j <= Len(file[2].slots)}

ReplaceCell(file, i, j, c) == [file EXCEPT ![i].cells[j] = c]

\* the reading sets stored under `date`, and the values stored under `slot`
SetsOf(data, date) ==
    {data[d].value : d \in {e \in 1..Len(data) : data[e].slot = date}}
ValuesOf(data, date, slot) ==
    UNION { {r[k].value : k \in {m \in 1..Len(r) : r[m].slot = slot}} :
            r \in SetsOf(data, date) }

\* C11: a range cell "A - B" is stored as the midpoint (A+B)/2 and a bare
\* number as itself, and writing a bare number v as the range "v - v"
\* leaves the parsed map (hence every aggregate computed from it) unchanged.
C11_RangeIsMidpoint ==
    pc = "parsed"
    => \A i \in DataLines(hrv_file) : \A j \in CellsUnderHeader(hrv_file, i) :
         LET cell == hrv_file[i].cells[j]
             slot == hrv_file[2].slots[j]
         IN  /\ (cell.kind = "range" /\ LastOfDate(hrv_file, i))
                 => ValuesOf(hrv_data, hrv_file[i].date, slot)
                      = {(cell.a + cell.b) \div 2}
             /\ (cell.kind = "num" /\ LastOfDate(hrv_file, i))
                 => ValuesOf(hrv_data, hrv_file[i].date, slot) = {cell.v}
             /\ cell.kind = "num"
                 => parse_hrv_file(ReplaceCell(hrv_file, i, j,
                        [kind |-> "range", a |-> cell.v, b |-> cell.v]))
                      = Returned(hrv_data)

\* C11 witness: the line "date 1, 30.0, 20.0 - 20.25" under the hours 6 and
\* 9 was parsed to {6 AM: 30.0, 9 AM: 20.125}.
C11_Witness ==
    /\ pc = "parsed"
    /\ Len(hrv_file) = 3
    /\ hrv_file[3].kind = "data"
    /\ hrv_file[3].cells = <<NumCell(30000),
                             [kind |-> "range", a |-> 20000, b |-> 20250]>>
    /\ hrv_data = << [slot |-> hrv_file[3].date,
                      value |-> << [slot |-> [num |-> 6, ampm |-> "AM"],
                                    value |-> 30000],
                                   [slot |-> [num |-> 9, ampm |-> "AM"],
                                    value |-> 20125] >>] >>

Unparsed(cell) == cell.kind \in {"blank", "bad", "badrange"}

\* C12: a cell that is blank, or whose bare value or range is no number, is
\* left out of its date's reading set and nothing is raised; every other
\* bucket and every other line is parsed as if the cell were blank.
C12_BadCellOmitted ==
    /\ Len(hrv_file) >= 2 => pc # "parse_raised"
    /\ pc = "parsed"
       => \A i \in DataLines(hrv_file) : \A j \in CellsUnderHeader(hrv_file, i) :
            LET cell == hrv_file[i].cells[j]
                slot == hrv_file[2].slots[j]
            IN  Unparsed(cell)
                => /\ LastOfDate(hrv_file, i)
                       => ValuesOf(hrv_data, hrv_file[i].date, slot) = {}
                   /\ parse_hrv_file(ReplaceCell(hrv_file, i, j, Blank))
                        = Returned(hrv_data)

\* C12 witness: two lines, each with a cell that is no number before a good
\* one: both dates keep the good reading only.
C12_Witness ==
    /\ pc = "parsed"
    /\ Len(hrv_file) = 4
    /\ hrv_file[3] = [kind |-> "data", date |-> DateStr(1),
                      cells |-> <<[kind |-> "bad"], NumCell(30000)>>]
    /\ hrv_file[4] = [kind |-> "data", date |-> DateStr(2),
                      cells |-> <<[kind |-> "badrange"],
                                  [kind |-> "range", a |-> 20000, b |-> 20250]>>]
    /\ Len(hrv_file[2].slots) = 3
    /\ hrv_data = << [slot |-> DateStr(1),
                      value |-> << [slot |-> [num |-> 9, ampm |-> "AM"],
                                    value |-> 30000] >>],
                     [slot |-> DateStr(2),
                      value |-> << [slot |-> [num |-> 9, ampm |-> "AM"],
                                    value |-> 20125] >>] >>

\* ------------------------------------------------------------------------
\* Frame of the aggregation loop (Spec)
\* ------------------------------------------------------------------------
\* what a call made on its own, from the loaded map and session sequence,
\* returns for the record at position i (0-based)
IsolatedResult(i) ==
    LET rec == sleep_data[i + 1]
    IN  calculate_daytime_hrv_integral(
            ReadingsFor(DateStr(rec.Wakeup_dt.date)),
            rec.Wakeup_dt,
            IF i + 1 < Len(sleep_data) THEN sleep_data[i + 2].Bedtime_dt ELSE None)

\* C13: the aggregation keeps no state and changes none of its inputs: no
\* step of the loop modifies the HRV map or the session sequence, and the
\* result recorded for each session is the one a call made on its own, from
\* the map and the sequence as they stand at any later moment, returns.
C13_AggregationReadsOnly ==
    /\ [][pc = "loop" => (hrv_data' = hrv_data /\ sleep_data' = sleep_data)]_vars
    /\ [](\A j \in 1..Len(calls) :
             /\ calls[j].hrv = ReadingsFor(DateStr(calls[j].wake.date))
             /\ calls[j].ret = IsolatedResult(calls[j].row))

\* C13 witness: a finished batch in which two sessions woke on the same
\* date and both were aggregated from that date's readings to a value.
C13_Witness ==
    /\ pc = "done"
    /\ Len(calls) >= 2
    /\ calls[1].wake.date = calls[2].wake.date
    /\ calls[1].hrv # <<>>
    /\ calls[1].hrv = calls[2].hrv
    /\ calls[1].ret # None
    /\ calls[2].ret # None

\* ------------------------------------------------------------------------
\* The accumulated width and the bounds of the mean (SpecCalc)
\* ------------------------------------------------------------------------
MaxOf(S) == CHOOSE x \in S : \A y \in S : x >= y

\* C14: with two or more selected readings, a value is returned exactly when
\* they do not all share one hour; total_time is then the largest selected
\* hour minus the smallest and the unrounded mean total_integral /
\* total_time lies between the smallest and the largest selected value;
\* when they all share one hour every segment is skipped, total_time is 0
\* and the result is absent.
C14_WidthAndBounds ==
    LET W == WindowIdx(hrv_arg, wakeup_arg, next_arg)
        Hs == {SlotHour(hrv_arg, k) : k \in W}
        Vs == {hrv_arg[k].value : k \in W}
    IN  (c_pc = "returned" /\ Cardinality(W) >= 2)
        => /\ ret = None <=> Cardinality(Hs) = 1
           /\ ret = None => (total_time = 0 /\ total_integral = 0)
           /\ ret # None
              => /\ total_time = MaxOf(Hs) - MinOf(Hs)
                 /\ 2 * MinOf(Vs) * total_time <= total_integral
                 /\ total_integral <= 2 * MaxOf(Vs) * total_time

\* C14 witness: readings under "2 PM", "6 AM" and "14 AM" (hours 14, 6, 14),
\* wake hour 6, no next bedtime: a value is returned and total_time is 8.
C14_Witness ==
    /\ c_pc = "returned"
    /\ Len(hrv_arg) = 3
    /\ hrv_arg[1].slot = [num |-> 2, ampm |-> "PM"]
    /\ hrv_arg[2].slot = [num |-> 6, ampm |-> "AM"]
    /\ hrv_arg[3].slot = [num |-> 14, ampm |-> "AM"]
    /\ hrv_arg[1].value # hrv_arg[3].value
    /\ wakeup_arg = [date |-> 1, hour |-> 6]
    /\ next_arg = None
    /\ Len(daytime_data) = 3
    /\ total_time = 8
    /\ ret # None

\* ------------------------------------------------------------------------
\* The lookahead onto a row whose bedtime did not parse (Spec)
\* ------------------------------------------------------------------------
\* C15 (as claimed): when row i+1 exists and its bedtime failed to parse, the
\* valid session at position i is neither skipped nor failed and is
\* aggregated as if it had no next bedtime (upper bound: the default hour).
C15_BadNextBedtimeUsesDefault ==
    Loaded
    => \A i \in 0..(idx - 1) :
         ( /\ (i + 1) \in GoodRows(sleep_file)
           /\ i + 2 <= Len(sleep_file.rows)
           /\ parse_japanese_datetime(sleep_file.rows[i + 2].Bedtime) = None )
         => \E j \in 1..Len(calls) :
              /\ calls[j].row = i
              /\ calls[j].ret = calculate_daytime_hrv_integral(
                                    calls[j].hrv, calls[j].wake, None)
              /\ result_df[j].HRV = hrv_column(calls[j].ret)

====
